---- MODULE Spec2Model ----
(***************************************************************************)
(* Model of the Sabio network monitor (src/sabio-monitor.py): one probe    *)
(* cycle of main() -- check_ping, run_speed_test, calculate_sla_metrics,   *)
(* get_location, console output and the SQL insert -- and direct calls of  *)
(* the two retrying probers with an arbitrary retries argument.            *)
(*                                                                         *)
(* Representation.  Python floats are integers in thousandths (45.32 is    *)
(* 45320), except packet_loss, which only ever holds whole percents and is *)
(* kept in percent (100.0 is 100), and the two contracted speeds, which    *)
(* are whole numbers of Mbps as constants (thousandths in the record).     *)
(* None is <<>> and a present optional value v is <<v>>.  A dict is a      *)
(* function from its keys; dict.update(u) is u @@ d.                       *)
(*                                                                         *)
(* The module also models the host setup utility (src/sabio-setup.py):     *)
(* its main() with the six provisioning steps, and direct, repeated calls  *)
(* of register_cron.  The crontab is a text: a sequence of characters, in  *)
(* which "m" stands for one occurrence of CRON_MARKER, "c" for the rest of *)
(* the current cron line and "a" for any other character.                  *)
(***************************************************************************)
EXTENDS Integers, Sequences, FiniteSets, TLC

\* Largest retries argument tried when a prober is called directly.
MaxRetries == 3
\* Longest crontab text that register_cron is started from.
MaxCronLen == 4
\* Largest number of consecutive direct calls of register_cron.
MaxRuns == 2

None == <<>>
Some(v) == <<v>>
Milli(x) == x * 1000
Get(d, k, default) == IF k \in DOMAIN d THEN d[k] ELSE default
EmptyDict == [k \in {} |-> 0]
rangeMut(n) == 0 .. n
range(n) == 0 .. (n - 1)

AGENT_VERSION == "1.0.0"
CONTRACTED_DOWNLOAD_MBPS == 100
CONTRACTED_UPLOAD_MBPS == 20
DefaultPingRetries == 3
DefaultSpeedRetries == 3
DefaultPacketLoss == 100

VARIABLES
  entry,          \* which function was called: "main", "check_ping", "run_speed_test"
  pc,             \* position of the flow of control
  system,         \* platform.system()
  clock,          \* wall clock, one tick per step
  result,         \* main's result dict
  ping_retries,   \* check_ping's retries argument
  packet_loss,    \* check_ping's local packet_loss
  ping_output,    \* check_ping's local ping_output (what the patterns find in it)
  ping_log,       \* outcome of every ping attempt made, in order
  ping_sleeps,    \* number of time.sleep(delay) calls in check_ping
  ping_ret,       \* how check_ping ended
  speed_retries,  \* run_speed_test's retries argument
  speed_log,      \* outcome of every speed-test attempt made, in order
  speed_sleeps,   \* number of time.sleep(delay) calls in run_speed_test
  speed_ret,      \* how run_speed_test ended
  sla_calls,      \* number of calls of calculate_sla_metrics
  sla_args,       \* the arguments of the call of calculate_sla_metrics (<<>> before)
  sla_ret,        \* what calculate_sla_metrics returned
  geo_calls,      \* number of calls of get_location
  geo_ok,         \* <<>> before the lookup, then whether it went without an exception
  console,        \* what has been printed, in order
  df,             \* the row prepared for the insert (<<>> before)
  sink_attempts,  \* number of df.to_sql calls
  sink,           \* rows stored in dbo.NetworkTestResults by this run
  is_root,        \* sabio-setup: os.geteuid() = 0
  crontab,        \* the user's crontab file (empty when there is none)
  crontab0,       \* the crontab before the first call of register_cron
  cron_runs,      \* number of completed calls of register_cron
  setup_log,      \* sabio-setup main: the steps called, in order, and how each ended
  setup_ret       \* how sabio-setup's main ended

setupVars == <<is_root, crontab, crontab0, cron_runs, setup_log, setup_ret>>
envVars == <<entry, system, ping_retries, speed_retries, setupVars>>
pingVars == <<packet_loss, ping_output, ping_log, ping_sleeps, ping_ret>>
slaVars == <<sla_calls, sla_args, sla_ret>>
speedVars == <<speed_log, speed_sleeps, speed_ret, slaVars>>
geoVars == <<geo_calls, geo_ok>>
outVars == <<console, df, sink_attempts, sink>>
vars == <<envVars, pc, clock, result, pingVars, speedVars, geoVars, outVars>>

----------------------------------------------------------------------------
\* Inputs from the environment

Hostnames == {"KE-NBO-SCH-A1-SPEED1", "raspberrypi"}
Uptimes == {0, 3600}
Systems == {"Linux", "Windows"}

\* ping_output, reduced to what the two patterns of check_ping find in it:
\* pct is the group of "(\d+)% packet loss", lost the group of "Lost = (\d+)".
PingOutputs(sys) ==
  IF sys = "Windows"
    THEN {[pct |-> None, lost |-> Some(k)] : k \in 0..5} \cup {[pct |-> None, lost |-> None]}
    ELSE {[pct |-> Some(n), lost |-> None] : n \in {0, 20, 40, 60, 80, 100}}
           \cup {[pct |-> None, lost |-> None]}

\* What subprocess.check_output can raise.
PingExceptions == {"CalledProcessError", "TimeoutExpired", "OSError"}

\* Speeds (in thousandths of a Mbps) passed to calculate_sla_metrics when it
\* is called directly: around 80% of either contracted speed, and beyond.
SlaInputs ==
  {0, 9870, 15999, 16000, 16001, 19000, 20000, 25000,
   45320, 79999, 80000, 80001, 95000, 100000, 120000}

\* A dict returned by a successful speed-test attempt (raw, unrounded values).
Measurements ==
  { [download_mbps |-> 45324, upload_mbps |-> 9868, ping_ms |-> Some(23456),
     ip |-> "41.90.1.2", jitter_ms |-> Some(0), test_duration_sec |-> 21337,
     test_server |-> "Nairobi", test_server_ip |-> "speedtest.example.ke:8080"],
    [download_mbps |-> 95000, upload_mbps |-> 19000, ping_ms |-> Some(8000),
     ip |-> "41.90.1.2", jitter_ms |-> Some(1234), test_duration_sec |-> 18000,
     test_server |-> "Mombasa", test_server_ip |-> "st.example.ke:8080"],
    [download_mbps |-> 123457, upload_mbps |-> 15999, ping_ms |-> Some(12001),
     ip |-> "41.90.1.3", jitter_ms |-> Some(0), test_duration_sec |-> 25002,
     test_server |-> "Nairobi", test_server_ip |-> "speedtest.example.ke:8080"] }

\* str(e) of what an attempt of run_speed_test can raise.
SpeedErrors == {"ConfigRetrievalError", "HTTP Error 403: Forbidden"}

\* What requests.get(...).json() can do: raise (ok = FALSE) or give a dict.
\* loc is the "lat,lon" string: whether both halves are floats, and their values.
GeoResponses ==
  { [ok |-> FALSE, data |-> EmptyDict],
    [ok |-> TRUE, data |-> [ip |-> "41.90.1.2", loc |-> [floats |-> TRUE, lat |-> -1286, lon |-> 36817],
                            city |-> "Nairobi", region |-> "Nairobi County", org |-> "AS33771 Safaricom"]],
    [ok |-> TRUE, data |-> [ip |-> "41.90.1.2"]],
    [ok |-> TRUE, data |-> [ip |-> "41.90.1.2", loc |-> [floats |-> FALSE, lat |-> 0, lon |-> 0],
                            city |-> "Nairobi", region |-> "Nairobi County", org |-> "AS33771 Safaricom"]] }

----------------------------------------------------------------------------
\* Pure functions of sabio-monitor.py

get_school_name(hostname) ==
  IF hostname = "KE-NBO-SCH-A1-SPEED1" THEN "School-A1" ELSE hostname

get_os_version(sys) == sys \o " 6.1 (#1 SMP)"

\* The except clause of check_ping.
PingCaught == {"CalledProcessError", "TimeoutExpired"}

ParsePacketLossMut(sys, out, cur) ==
  IF sys = "Windows"
    THEN IF out.lost # None THEN (out.lost[1] * 100) \div 5 ELSE 0
    ELSE IF out.pct # None THEN out.pct[1] ELSE 0

\* packet_loss after the pattern search on a completed ping.
ParsePacketLoss(sys, out, cur) ==
  IF sys = "Windows"
    THEN IF out.lost # None THEN (out.lost[1] * 100) \div 5 ELSE cur
    ELSE IF out.pct # None THEN out.pct[1] ELSE cur

\* round(x, 2) on a value in thousandths (the inputs used have no ties).
Round2(x) == ((x + 5) \div 10) * 10

RoundedKeys == {"download_mbps", "upload_mbps", "ping_ms", "jitter_ms", "test_duration_sec"}

RoundNumbers(d) ==
  [k \in DOMAIN d |->
     IF k \in RoundedKeys
       THEN IF k \in {"ping_ms", "jitter_ms"}
              THEN IF d[k] = None THEN None ELSE Some(Round2(d[k][1]))
              ELSE Round2(d[k])
       ELSE d[k]]

MinMut(a, b) == IF a <= b THEN b ELSE a
Min(a, b) == IF a <= b THEN a ELSE b

calculate_sla_metricsMut(download_mbps, upload_mbps) ==
  LET download_percentage ==
        IF CONTRACTED_DOWNLOAD_MBPS > 0
          THEN (download_mbps * 100) \div CONTRACTED_DOWNLOAD_MBPS ELSE 0
      upload_percentage ==
        IF CONTRACTED_UPLOAD_MBPS > 0
          THEN (upload_mbps * 100) \div CONTRACTED_UPLOAD_MBPS ELSE 0
      is_compliant == download_percentage > Milli(80) /\ upload_percentage > Milli(80)
      download_deviation == download_percentage - Milli(100)
      upload_deviation == upload_percentage - Milli(100)
  IN  [contracted_download_mbps |-> Milli(CONTRACTED_DOWNLOAD_MBPS),
       contracted_upload_mbps |-> Milli(CONTRACTED_UPLOAD_MBPS),
       sla_compliance |-> is_compliant,
       sla_deviation_pct |-> Min(download_deviation, upload_deviation)]

calculate_sla_metrics(download_mbps, upload_mbps) ==
  LET download_percentage ==
        IF CONTRACTED_DOWNLOAD_MBPS > 0
          THEN (download_mbps * 100) \div CONTRACTED_DOWNLOAD_MBPS ELSE 0
      upload_percentage ==
        IF CONTRACTED_UPLOAD_MBPS > 0
          THEN (upload_mbps * 100) \div CONTRACTED_UPLOAD_MBPS ELSE 0
      is_compliant == download_percentage >= Milli(80) /\ upload_percentage >= Milli(80)
      download_deviation == download_percentage - Milli(100)
      upload_deviation == upload_percentage - Milli(100)
  IN  [contracted_download_mbps |-> Milli(CONTRACTED_DOWNLOAD_MBPS),
       contracted_upload_mbps |-> Milli(CONTRACTED_UPLOAD_MBPS),
       sla_compliance |-> is_compliant,
       sla_deviation_pct |-> Min(download_deviation, upload_deviation)]

GeoDefaults ==
  [latitude |-> 0, longitude |-> 0, city |-> "", region |-> "", org |-> ""]

get_locationMut(resp) ==
  IF ~resp.ok THEN GeoDefaults
  ELSE [latitude |-> IF "loc" \in DOMAIN resp.data /\ resp.data.loc.floats
                       THEN resp.data.loc.lat ELSE 0,
        longitude |-> IF "loc" \in DOMAIN resp.data /\ resp.data.loc.floats
                        THEN resp.data.loc.lon ELSE 0,
        city |-> Get(resp.data, "city", ""),
        region |-> Get(resp.data, "region", ""),
        org |-> Get(resp.data, "org", "")]

get_locationIpMut(resp) ==
  IF ~resp.ok THEN GeoDefaults
  ELSE IF "loc" \in DOMAIN resp.data /\ ~resp.data.loc.floats THEN GeoDefaults
  ELSE [ip |-> Get(resp.data, "ip", ""),
        latitude |-> IF "loc" \in DOMAIN resp.data THEN resp.data.loc.lat ELSE 0,
        longitude |-> IF "loc" \in DOMAIN resp.data THEN resp.data.loc.lon ELSE 0,
        city |-> Get(resp.data, "city", ""),
        region |-> Get(resp.data, "region", ""),
        org |-> Get(resp.data, "org", "")]

\* The dict get_location returns for a response: the defaults when the
\* request, the JSON decoding or the float conversion raised.
get_location(resp) ==
  IF ~resp.ok THEN GeoDefaults
  ELSE IF "loc" \in DOMAIN resp.data /\ ~resp.data.loc.floats THEN GeoDefaults
  ELSE [latitude |-> IF "loc" \in DOMAIN resp.data THEN resp.data.loc.lat ELSE 0,
        longitude |-> IF "loc" \in DOMAIN resp.data THEN resp.data.loc.lon ELSE 0,
        city |-> Get(resp.data, "city", ""),
        region |-> Get(resp.data, "region", ""),
        org |-> Get(resp.data, "org", "")]

NoConnectivityFieldsMut ==
  [download_mbps |-> 0, upload_mbps |-> 0, ping_ms |-> None, jitter_ms |-> None,
   test_duration_sec |-> 0, test_server |-> "", test_server_ip |-> "",
   ip |-> "Unavailable", error_code |-> 2, error_message |-> "No internet connection"]

\* The dict main merges into result when ping failed.
NoConnectivityFields ==
  [download_mbps |-> 0, upload_mbps |-> 0, ping_ms |-> None, jitter_ms |-> None,
   test_duration_sec |-> 0, test_server |-> "", test_server_ip |-> "",
   ip |-> "Unavailable", error_code |-> 1, error_message |-> "No internet connection"]

SpeedFailedFieldsMut(e) ==
  [download_mbps |-> 0, upload_mbps |-> 0, ping_ms |-> Some(0), jitter_ms |-> Some(0),
   test_duration_sec |-> 0, test_server |-> "", test_server_ip |-> "",
   ip |-> "Unavailable", error_code |-> 2, error_message |-> "Speed test failed: " \o e]

\* The dict main merges into result in its except branch; e is str(e).
SpeedFailedFields(e) ==
  [download_mbps |-> 0, upload_mbps |-> 0, ping_ms |-> None, jitter_ms |-> None,
   test_duration_sec |-> 0, test_server |-> "", test_server_ip |-> "",
   ip |-> "Unavailable", error_code |-> 2, error_message |-> "Speed test failed: " \o e]

\* The message of the exception run_speed_test raises after its last attempt.
SpeedTestFailure(retries, e) ==
  "Speed test failed after " \o ToString(retries) \o " attempts: " \o e

\* The row of the DataFrame main builds from result.
BuildRow(r) ==
  [TimestampUtc |-> r.timestamp.instant,
   DeviceId |-> r.device_id,
   SchoolName |-> r.school_name,
   AgentVersion |-> r.agent_version,
   OsVersion |-> r.os_version,
   DeviceUptimeSec |-> r.device_uptime_sec,
   PingSuccess |-> r.ping_success,
   DownloadMbps |-> r.download_mbps,
   UploadMbps |-> r.upload_mbps,
   PingMs |-> r.ping_ms,
   JitterMs |-> Get(r, "jitter_ms", None),
   PacketLossPct |-> r.packet_loss_pct,
   TestDurationSec |-> Get(r, "test_duration_sec", 0),
   TestServer |-> Get(r, "test_server", ""),
   TestServerIp |-> Get(r, "test_server_ip", ""),
   ContractedDownloadMbps |-> Get(r, "contracted_download_mbps", 0),
   ContractedUploadMbps |-> Get(r, "contracted_upload_mbps", 0),
   SlaCompliance |-> Get(r, "sla_compliance", FALSE),
   SlaDeviationPct |-> Get(r, "sla_deviation_pct", 0),
   IpAddress |-> Get(r, "ip", ""),
   Latitude |-> r.latitude,
   Longitude |-> r.longitude,
   City |-> r.city,
   Region |-> r.region,
   ISPName |-> r.org,
   ErrorCode |-> Get(r, "error_code", 0),
   ErrorMessage |-> Get(r, "error_message", "")]

----------------------------------------------------------------------------
\* sabio-setup: the crontab text and what register_cron makes of it

CRON_MARKER == "m"
CronChars == {"a", CRON_MARKER, "\n", "\r"}
CronTexts == UNION {[1..n -> CronChars] : n \in 0..MaxCronLen}
\* The crontabs main is started from: the texts of at most two characters.
SetupCrontabs == {t \in CronTexts : Len(t) <= 2}

\* The six steps of main, in the order of its try block.
SetupSteps ==
  <<"apt_install", "create_project_dir", "fetch_monitor_script",
    "create_and_install_venv", "configure_odbc", "register_cron">>

\* The line register_cron installs: schedule and paths, then the marker.
cron_line == <<"c", CRON_MARKER>>

\* CRON_MARKER in l
ContainsMarker(l) == \E i \in 1..Len(l) : l[i] = CRON_MARKER
NoMarker(l) == ~ContainsMarker(l)

\* What text=True makes of the output of "crontab -l": "\r\n" and a lone
\* "\r" are read as "\n".
RECURSIVE UniversalNewlines(_)
UniversalNewlines(t) ==
  IF t = <<>> THEN <<>>
  ELSE IF Head(t) = "\r"
    THEN <<"\n">> \o UniversalNewlines(IF Len(t) >= 2 /\ t[2] = "\n"
                                         THEN SubSeq(t, 3, Len(t)) ELSE Tail(t))
    ELSE <<Head(t)>> \o UniversalNewlines(Tail(t))

\* The lines of t, broken at the characters of breaks ("\r\n" is one break
\* when "\r" is a break); no last line is made of an empty rest.
RECURSIVE SplitAt(_, _, _, _)
SplitAt(t, breaks, cur, acc) ==
  IF t = <<>> THEN (IF cur = <<>> THEN acc ELSE Append(acc, cur))
  ELSE IF Head(t) = "\r" /\ "\r" \in breaks /\ Len(t) >= 2 /\ t[2] = "\n"
    THEN SplitAt(SubSeq(t, 3, Len(t)), breaks, <<>>, Append(acc, cur))
  ELSE IF Head(t) \in breaks
    THEN SplitAt(Tail(t), breaks, <<>>, Append(acc, cur))
  ELSE SplitAt(Tail(t), breaks, Append(cur, Head(t)), acc)

\* str.splitlines()
splitlines(t) == SplitAt(t, {"\n", "\r"}, <<>>, <<>>)

\* sep.join(lines)
RECURSIVE join(_, _)
join(sep, lines) ==
  IF lines = <<>> THEN <<>>
  ELSE IF Len(lines) = 1 THEN lines[1]
  ELSE lines[1] \o sep \o join(sep, Tail(lines))

\* register_cron's cron_text, from the stdout of "crontab -l".
cron_textMut(stdout) ==
  join(<<"\n">>, Append(splitlines(stdout), cron_line)) \o <<"\n">>
cron_text(stdout) ==
  join(<<"\n">>, Append(SelectSeq(splitlines(stdout), NoMarker), cron_line)) \o <<"\n">>

\* The lines of a crontab file as cron reads it: broken at "\n" only.
CrontabLines(t) == SplitAt(t, {"\n"}, <<>>, <<>>)

\* "crontab -" installs a text it accepts.  Every line of the installed
\* crontab was accepted before and cron_line is well formed; of any other
\* line (one made by breaking an old line at a carriage return) it is not
\* known whether crontab accepts it.
SurelyAccepted(old, text) ==
  \A i \in 1..Len(CrontabLines(text)) :
     \/ CrontabLines(text)[i] = cron_line
     \/ \E j \in 1..Len(CrontabLines(old)) : CrontabLines(text)[i] = CrontabLines(old)[j]

----------------------------------------------------------------------------
\* The program

InitMain ==
  /\ entry = "main" /\ pc = "main"
  /\ ping_retries = DefaultPingRetries /\ speed_retries = DefaultSpeedRetries
  /\ sla_args = None

InitCheckPing ==
  /\ entry = "check_ping" /\ pc = "check_ping"
  /\ ping_retries \in 0..MaxRetries /\ speed_retries = DefaultSpeedRetries
  /\ sla_args = None

InitRunSpeedTest ==
  /\ entry = "run_speed_test" /\ pc = "run_speed_test"
  /\ ping_retries = DefaultPingRetries /\ speed_retries \in 0..MaxRetries
  /\ sla_args = None

InitSlaMetrics ==
  /\ entry = "calculate_sla_metrics" /\ pc = "calculate_sla_metrics"
  /\ ping_retries = DefaultPingRetries /\ speed_retries = DefaultSpeedRetries
  /\ sla_args \in SlaInputs \X SlaInputs

\* Repeated direct calls of register_cron, from any crontab.
InitRegisterCron ==
  /\ entry = "register_cron" /\ pc = "register_cron"
  /\ ping_retries = DefaultPingRetries /\ speed_retries = DefaultSpeedRetries
  /\ sla_args = None
  /\ system = "Linux" /\ is_root = TRUE /\ crontab \in CronTexts

\* sabio-setup's main, run as root or not.
InitSetupMain ==
  /\ entry = "setup_main" /\ pc = "setup_main"
  /\ ping_retries = DefaultPingRetries /\ speed_retries = DefaultSpeedRetries
  /\ sla_args = None
  /\ system = "Linux" /\ is_root \in BOOLEAN /\ crontab \in SetupCrontabs

Init ==
  /\ \/ /\ InitMain \/ InitCheckPing \/ InitRunSpeedTest \/ InitSlaMetrics
        /\ system \in Systems /\ is_root = FALSE /\ crontab = <<>>
     \/ InitRegisterCron
     \/ InitSetupMain
  /\ crontab0 = crontab /\ cron_runs = 0
  /\ setup_log = <<>> /\ setup_ret = [kind |-> "pending", code |-> 0]
  /\ clock = 0
  /\ result = EmptyDict
  /\ packet_loss = DefaultPacketLoss
  /\ ping_output = [pct |-> None, lost |-> None]
  /\ ping_log = <<>> /\ ping_sleeps = 0
  /\ ping_ret = [kind |-> "pending", reachable |-> FALSE, loss |-> 0]
  /\ speed_log = <<>> /\ speed_sleeps = 0 /\ sla_calls = 0 /\ sla_ret = EmptyDict
  /\ speed_ret = [kind |-> "pending", value |-> EmptyDict, e |-> ""]
  /\ geo_calls = 0 /\ geo_ok = None
  /\ console = <<>> /\ df = None /\ sink_attempts = 0 /\ sink = <<>>

\* main, from its first line to the call of check_ping.
MainStart(hostname, uptime) ==
  /\ pc = "main"
  /\ result' = [timestamp |-> [instant |-> clock, suffix |-> "Z"],
                device_id |-> hostname,
                school_name |-> get_school_name(hostname),
                agent_version |-> AGENT_VERSION,
                os_version |-> get_os_version(system),
                device_uptime_sec |-> uptime]
  /\ pc' = "check_ping"
  /\ clock' = clock + 1
  /\ UNCHANGED <<envVars, pingVars, speedVars, geoVars, outVars>>

NoConnectivityMut(ping_success) == FALSE

\* The test of main that decides whether run_speed_test is called.
NoConnectivity(ping_success) == ~ping_success

\* main from the return of check_ping to the call of run_speed_test or get_location.
MainAfterPing(ping_success, loss) ==
  LET r == [ping_success |-> ping_success, packet_loss_pct |-> loss] @@ result
  IN  IF NoConnectivity(ping_success)
        THEN result' = NoConnectivityFields @@ r /\ pc' = "get_location"
        ELSE result' = r /\ pc' = "run_speed_test"

SleepsAfterMut(attempt, retries) == TRUE

\* time.sleep(delay) runs after a failed attempt unless it was the last one.
SleepsAfter(attempt, retries) == attempt < retries - 1

CheckPingCompletedMut(out) ==
  /\ pc = "check_ping"
  /\ Len(ping_log) \in range(ping_retries)
  /\ packet_loss' = ParsePacketLoss(system, out, packet_loss)
  /\ ping_output' = out
  /\ ping_log' = Append(ping_log, "completed")
  /\ clock' = clock + 1
  /\ UNCHANGED <<envVars, pc, result, ping_ret, ping_sleeps, speedVars, geoVars, outVars>>

\* An attempt of check_ping whose ping exits with status 0: check_ping returns.
CheckPingCompleted(out) ==
  /\ pc = "check_ping"
  /\ Len(ping_log) \in range(ping_retries)
  /\ LET loss == ParsePacketLoss(system, out, packet_loss)
     IN  /\ packet_loss' = loss
         /\ ping_ret' = [kind |-> "return", reachable |-> TRUE, loss |-> loss]
         /\ IF entry = "main" THEN MainAfterPing(TRUE, loss)
                              ELSE pc' = "done" /\ UNCHANGED result
  /\ ping_output' = out
  /\ ping_log' = Append(ping_log, "completed")
  /\ clock' = clock + 1
  /\ UNCHANGED <<envVars, ping_sleeps, speedVars, geoVars, outVars>>

\* An attempt of check_ping that raises an exception the except clause names.
CheckPingCaught(exc) ==
  /\ pc = "check_ping"
  /\ Len(ping_log) \in range(ping_retries)
  /\ exc \in PingCaught
  /\ ping_log' = Append(ping_log, exc)
  /\ ping_sleeps' = IF SleepsAfter(Len(ping_log), ping_retries)
                      THEN ping_sleeps + 1 ELSE ping_sleeps
  /\ clock' = clock + 1
  /\ UNCHANGED <<envVars, pc, result, packet_loss, ping_output, ping_ret, speedVars, geoVars, outVars>>

\* An attempt of check_ping that raises any other exception (the ping tool
\* is missing, its output cannot be decoded): it leaves check_ping, and main.
CheckPingUncaught(exc) ==
  /\ pc = "check_ping"
  /\ Len(ping_log) \in range(ping_retries)
  /\ exc \notin PingCaught
  /\ ping_log' = Append(ping_log, exc)
  /\ ping_ret' = [kind |-> "raise", reachable |-> FALSE, loss |-> packet_loss]
  /\ pc' = IF entry = "main" THEN "crashed" ELSE "done"
  /\ clock' = clock + 1
  /\ UNCHANGED <<envVars, result, packet_loss, ping_output, ping_sleeps, speedVars, geoVars, outVars>>

\* The loop of check_ping is over: return False, packet_loss.
CheckPingExhausted ==
  /\ pc = "check_ping"
  /\ Len(ping_log) \notin range(ping_retries)
  /\ ping_ret' = [kind |-> "return", reachable |-> FALSE, loss |-> packet_loss]
  /\ IF entry = "main" THEN MainAfterPing(FALSE, packet_loss)
                       ELSE pc' = "done" /\ UNCHANGED result
  /\ clock' = clock + 1
  /\ UNCHANGED <<envVars, packet_loss, ping_output, ping_log, ping_sleeps, speedVars, geoVars, outVars>>

\* main's try block after run_speed_test returned the dict m.
MainAfterSpeedTest(m) ==
  LET r == RoundNumbers(m @@ result)
  IN  /\ result' = calculate_sla_metrics(r.download_mbps, r.upload_mbps) @@ r
      /\ sla_calls' = sla_calls + 1
      /\ sla_args' = <<r.download_mbps, r.upload_mbps>>
      /\ sla_ret' = calculate_sla_metrics(r.download_mbps, r.upload_mbps)
      /\ pc' = "get_location"

\* main's except branch; e is str(e).
MainSpeedTestFailed(e) ==
  /\ result' = SpeedFailedFields(e) @@ result
  /\ pc' = "get_location"
  /\ UNCHANGED slaVars

\* An attempt of run_speed_test that succeeds: run_speed_test returns its dict.
RunSpeedTestOk(m) ==
  /\ pc = "run_speed_test"
  /\ Len(speed_log) \in range(speed_retries)
  /\ speed_log' = Append(speed_log, "ok")
  /\ speed_ret' = [kind |-> "return", value |-> m, e |-> ""]
  /\ IF entry = "main" THEN MainAfterSpeedTest(m)
                       ELSE pc' = "done" /\ UNCHANGED <<result, slaVars>>
  /\ clock' = clock + 1
  /\ UNCHANGED <<envVars, pingVars, speed_sleeps, geoVars, outVars>>

\* An attempt of run_speed_test that raises and is not the last: sleep, go on.
RunSpeedTestRetry(e) ==
  /\ pc = "run_speed_test"
  /\ Len(speed_log) \in range(speed_retries)
  /\ SleepsAfter(Len(speed_log), speed_retries)
  /\ speed_log' = Append(speed_log, "failed")
  /\ speed_sleeps' = speed_sleeps + 1
  /\ clock' = clock + 1
  /\ UNCHANGED <<envVars, pc, result, pingVars, speed_ret, slaVars, geoVars, outVars>>

\* The last attempt of run_speed_test raises: run_speed_test raises.
RunSpeedTestRaise(e) ==
  /\ pc = "run_speed_test"
  /\ Len(speed_log) \in range(speed_retries)
  /\ ~SleepsAfter(Len(speed_log), speed_retries)
  /\ speed_log' = Append(speed_log, "failed")
  /\ LET msg == SpeedTestFailure(speed_retries, e)
     IN  /\ speed_ret' = [kind |-> "raise", value |-> EmptyDict, e |-> msg]
         /\ IF entry = "main" THEN MainSpeedTestFailed(msg)
                              ELSE pc' = "done" /\ UNCHANGED <<result, slaVars>>
  /\ clock' = clock + 1
  /\ UNCHANGED <<envVars, pingVars, speed_sleeps, geoVars, outVars>>

\* The loop of run_speed_test ends without a return or a raise: the function
\* returns None, and result.update(None) in main raises a TypeError.
RunSpeedTestFallThrough ==
  /\ pc = "run_speed_test"
  /\ Len(speed_log) \notin range(speed_retries)
  /\ speed_ret' = [kind |-> "return_none", value |-> EmptyDict, e |-> ""]
  /\ IF entry = "main" THEN MainSpeedTestFailed("'NoneType' object is not iterable")
                       ELSE pc' = "done" /\ UNCHANGED <<result, slaVars>>
  /\ clock' = clock + 1
  /\ UNCHANGED <<envVars, pingVars, speed_log, speed_sleeps, geoVars, outVars>>

\* A direct call of calculate_sla_metrics.
CallSlaMetrics ==
  /\ pc = "calculate_sla_metrics"
  /\ sla_ret' = calculate_sla_metrics(sla_args[1], sla_args[2])
  /\ sla_calls' = sla_calls + 1
  /\ pc' = "done"
  /\ clock' = clock + 1
  /\ UNCHANGED <<envVars, result, pingVars, speed_log, speed_sleeps, speed_ret,
                 sla_args, geoVars, outVars>>

GetLocationRestampMut(resp) ==
  /\ pc = "get_location"
  /\ geo_calls' = geo_calls + 1
  /\ geo_ok' = Some(resp.ok /\ ("loc" \in DOMAIN resp.data => resp.data.loc.floats))
  /\ result' = [timestamp |-> [instant |-> clock, suffix |-> "Z"]]
                  @@ get_location(resp) @@ result
  /\ pc' = "print"
  /\ clock' = clock + 1
  /\ UNCHANGED <<envVars, pingVars, speedVars, outVars>>

\* geo_data = get_location(); result.update(geo_data)
GetLocation(resp) ==
  /\ pc = "get_location"
  /\ geo_calls' = geo_calls + 1
  /\ geo_ok' = Some(resp.ok /\ ("loc" \in DOMAIN resp.data => resp.data.loc.floats))
  /\ result' = get_location(resp) @@ result
  /\ pc' = "print"
  /\ clock' = clock + 1
  /\ UNCHANGED <<envVars, pingVars, speedVars, outVars>>

\* print(json.dumps(result)) and the construction of the DataFrame.
PrintRecord ==
  /\ pc = "print"
  /\ console' = Append(console, [kind |-> "record", text |-> "", body |-> result])
  /\ df' = Some(BuildRow(result))
  /\ pc' = "insert"
  /\ clock' = clock + 1
  /\ UNCHANGED <<envVars, result, pingVars, speedVars, geoVars, sink_attempts, sink>>

InsertRecordRetryMut(ok) ==
  /\ pc = "insert"
  /\ sink_attempts' = sink_attempts + 1
  /\ sink' = IF ok THEN Append(sink, df[1]) ELSE sink
  /\ console' = Append(console,
        [kind |-> "text", body |-> EmptyDict,
         text |-> IF ok THEN " Data inserted into SQL Server." ELSE " Database insert error"])
  /\ pc' = IF ~ok /\ sink_attempts = 0 THEN "insert" ELSE "duration"
  /\ clock' = clock + 1
  /\ UNCHANGED <<envVars, result, pingVars, speedVars, geoVars, df>>

InsertRecordCrashMut(ok) ==
  /\ pc = "insert"
  /\ sink_attempts' = sink_attempts + 1
  /\ sink' = IF ok THEN Append(sink, df[1]) ELSE sink
  /\ console' = IF ok THEN Append(console,
        [kind |-> "text", body |-> EmptyDict, text |-> " Data inserted into SQL Server."])
                      ELSE console
  /\ pc' = IF ok THEN "duration" ELSE "crashed"
  /\ clock' = clock + 1
  /\ UNCHANGED <<envVars, result, pingVars, speedVars, geoVars, df>>

\* df.to_sql(...) inside main's last try block: it appends the row or raises.
InsertRecord(ok) ==
  /\ pc = "insert"
  /\ sink_attempts' = sink_attempts + 1
  /\ sink' = IF ok THEN Append(sink, df[1]) ELSE sink
  /\ console' = Append(console,
        [kind |-> "text", body |-> EmptyDict,
         text |-> IF ok THEN " Data inserted into SQL Server." ELSE " Database insert error"])
  /\ pc' = "duration"
  /\ clock' = clock + 1
  /\ UNCHANGED <<envVars, result, pingVars, speedVars, geoVars, df>>

PrintDurationMut ==
  /\ pc = "duration"
  /\ console' = Append(console, [kind |-> "text", body |-> EmptyDict, text |-> "Execution time"])
  /\ result' = [execution_time_sec |-> clock] @@ result
  /\ pc' = "done"
  /\ clock' = clock + 1
  /\ UNCHANGED <<envVars, pingVars, speedVars, geoVars, df, sink_attempts, sink>>

\* The last two lines of main.
PrintDuration ==
  /\ pc = "duration"
  /\ console' = Append(console, [kind |-> "text", body |-> EmptyDict, text |-> "Execution time"])
  /\ pc' = "done"
  /\ clock' = clock + 1
  /\ UNCHANGED <<envVars, result, pingVars, speedVars, geoVars, df, sink_attempts, sink>>

callVars == <<entry, system, ping_retries, speed_retries>>
monitorVars == <<result, pingVars, speedVars, geoVars, outVars>>

\* register_cron, whole: read the crontab, drop the marker lines, append
\* cron_line, hand the text to "crontab -" (whose exit status is not looked
\* at).  The crontab after a call that started from cur:
InstalledCrontab(cur, accepted) ==
  IF accepted THEN cron_text(UniversalNewlines(cur)) ELSE cur

\* A direct call of register_cron that returns.
RegisterCron(accepted) ==
  /\ pc = "register_cron" /\ cron_runs < MaxRuns
  /\ accepted \/ ~SurelyAccepted(crontab, cron_text(UniversalNewlines(crontab)))
  /\ crontab' = InstalledCrontab(crontab, accepted)
  /\ cron_runs' = cron_runs + 1
  /\ clock' = clock + 1
  /\ UNCHANGED <<callVars, monitorVars, pc, is_root, crontab0, setup_log, setup_ret>>

\* A direct call of register_cron in which subprocess raises (no crontab
\* program): the exception leaves register_cron before anything is written.
RegisterCronRaises ==
  /\ pc = "register_cron" /\ cron_runs < MaxRuns
  /\ pc' = "raised"
  /\ clock' = clock + 1
  /\ UNCHANGED <<callVars, monitorVars, setupVars>>

\* sabio-setup main, up to the try block: the check of the effective uid.
SetupMainStart ==
  /\ pc = "setup_main"
  /\ IF is_root
       THEN pc' = "setup_steps" /\ UNCHANGED setup_ret
       ELSE pc' = "setup_done" /\ setup_ret' = [kind |-> "sys_exit", code |-> 1]
  /\ clock' = clock + 1
  /\ UNCHANGED <<callVars, monitorVars, is_root, crontab, crontab0, cron_runs, setup_log>>

\* The next step of the try block runs and returns.
SetupStepCompletes(accepted) ==
  /\ pc = "setup_steps" /\ Len(setup_log) < Len(SetupSteps)
  /\ LET step == SetupSteps[Len(setup_log) + 1] IN
       /\ setup_log' = Append(setup_log, [step |-> step, ok |-> TRUE])
       /\ IF step = "register_cron"
            THEN /\ accepted \/ ~SurelyAccepted(crontab, cron_text(UniversalNewlines(crontab)))
                 /\ crontab' = InstalledCrontab(crontab, accepted)
                 /\ cron_runs' = cron_runs + 1
            ELSE accepted /\ UNCHANGED <<crontab, cron_runs>>
  /\ clock' = clock + 1
  /\ UNCHANGED <<callVars, monitorVars, pc, is_root, crontab0, setup_ret>>

\* The next step of the try block raises an Exception: main prints the
\* error and returns 1.
SetupStepRaisesMut ==
  /\ pc = "setup_steps" /\ Len(setup_log) < Len(SetupSteps)
  /\ setup_log' = Append(setup_log, [step |-> SetupSteps[Len(setup_log) + 1], ok |-> FALSE])
  /\ clock' = clock + 1
  /\ UNCHANGED <<callVars, monitorVars, pc, is_root, crontab, crontab0, cron_runs, setup_ret>>
SetupStepRaises ==
  /\ pc = "setup_steps" /\ Len(setup_log) < Len(SetupSteps)
  /\ setup_log' = Append(setup_log, [step |-> SetupSteps[Len(setup_log) + 1], ok |-> FALSE])
  /\ setup_ret' = [kind |-> "return", code |-> 1]
  /\ pc' = "setup_done"
  /\ clock' = clock + 1
  /\ UNCHANGED <<callVars, monitorVars, is_root, crontab, crontab0, cron_runs>>

\* All six steps returned: the closing messages, then return 0.
SetupReturn ==
  /\ pc = "setup_steps" /\ Len(setup_log) = Len(SetupSteps)
  /\ setup_ret' = [kind |-> "return", code |-> 0]
  /\ pc' = "setup_done"
  /\ clock' = clock + 1
  /\ UNCHANGED <<callVars, monitorVars, is_root, crontab, crontab0, cron_runs, setup_log>>

Next ==
  \/ \E h \in Hostnames, u \in Uptimes : MainStart(h, u)
  \/ \E o \in PingOutputs(system) : CheckPingCompleted(o)
  \/ \E x \in PingExceptions : CheckPingCaught(x)
  \/ \E x \in PingExceptions : CheckPingUncaught(x)
  \/ CheckPingExhausted
  \/ \E m \in Measurements : RunSpeedTestOk(m)
  \/ \E e \in SpeedErrors : RunSpeedTestRetry(e)
  \/ \E e \in SpeedErrors : RunSpeedTestRaise(e)
  \/ RunSpeedTestFallThrough
  \/ CallSlaMetrics
  \/ \E resp \in GeoResponses : GetLocation(resp)
  \/ PrintRecord
  \/ \E ok \in BOOLEAN : InsertRecord(ok)
  \/ PrintDuration
  \/ RegisterCronRaises
  \/ \E accepted \in BOOLEAN : RegisterCron(accepted)
  \/ SetupMainStart
  \/ SetupStepRaises
  \/ \E accepted \in BOOLEAN : SetupStepCompletes(accepted)
  \/ SetupReturn

Spec == Init /\ [][Next]_vars

\* The program is sequential: a step that can be taken is taken.
SpecFair == Spec /\ WF_vars(Next)

----------------------------------------------------------------------------
\* Properties

\* check_ping returned False / True to main
PingUnreachable == entry = "main" /\ ping_ret.kind = "return" /\ ~ping_ret.reachable
PingReachable == entry = "main" /\ ping_ret.kind = "return" /\ ping_ret.reachable

\* The rows main has passed to df.to_sql
Handed == IF sink_attempts > 0 THEN {df[1]} ELSE {}

\* The throughput fields of a row, under the keys of result
RowThroughput(row) ==
  [download_mbps |-> row.DownloadMbps, upload_mbps |-> row.UploadMbps,
   ping_ms |-> row.PingMs, jitter_ms |-> row.JitterMs,
   test_duration_sec |-> row.TestDurationSec, test_server |-> row.TestServer,
   test_server_ip |-> row.TestServerIp, ip |-> row.IpAddress]

\* The zero-filled throughput fields
ZeroedThroughput ==
  [download_mbps |-> 0, upload_mbps |-> 0, ping_ms |-> None, jitter_ms |-> None,
   test_duration_sec |-> 0, test_server |-> "", test_server_ip |-> "",
   ip |-> "Unavailable"]

HasZeroedThroughput(d) ==
  \A k \in DOMAIN ZeroedThroughput : k \in DOMAIN d /\ d[k] = ZeroedThroughput[k]

\* C1: ping gates bandwidth.  Once check_ping has returned False to main,
\* run_speed_test is never called (no attempt, no return, control never at
\* it), and the record -- the dict, and the row built from it -- has
\* ping_success false, packet loss 100.0, error code 1, zero download and
\* upload, no ping_ms and jitter_ms, and "Unavailable" as ip.
C1_PingGatesBandwidth ==
  PingUnreachable =>
    /\ speed_log = <<>> /\ speed_ret.kind = "pending" /\ pc # "run_speed_test"
    /\ sla_calls = 0
    /\ {"ping_success", "packet_loss_pct", "error_code", "download_mbps",
        "upload_mbps", "ping_ms", "jitter_ms", "ip"} \subseteq DOMAIN result
    /\ result.ping_success = FALSE
    /\ result.packet_loss_pct = 100
    /\ result.error_code = 1
    /\ result.download_mbps = 0 /\ result.upload_mbps = 0
    /\ result.ping_ms = None /\ result.jitter_ms = None
    /\ result.ip = "Unavailable"
    /\ df # None =>
         /\ df[1].PingSuccess = FALSE /\ df[1].PacketLossPct = 100
         /\ df[1].ErrorCode = 1
         /\ df[1].DownloadMbps = 0 /\ df[1].UploadMbps = 0
         /\ df[1].PingMs = None /\ df[1].JitterMs = None
         /\ df[1].IpAddress = "Unavailable"

C1_Witness ==
  /\ PingUnreachable /\ Len(ping_log) = 3 /\ pc = "done"
  /\ Len(sink) = 1 /\ sink[1].ErrorCode = 1

\* run_speed_test raised to main after failing on every attempt
SpeedTestFailedEveryAttempt ==
  /\ PingReachable /\ speed_ret.kind = "raise"
  /\ \A i \in 1..Len(speed_log) : speed_log[i] = "failed"

\* C2: when ping was reachable and every attempt of run_speed_test failed,
\* the record has error code 2 and its eight throughput fields have the
\* values they have in the unreachable case (where the error code is 1):
\* 0.0, 0.0, None, None, 0.0, "", "", "Unavailable" -- in the dict and in the row.
C2_FailedSpeedTestZeroFilled ==
  /\ SpeedTestFailedEveryAttempt =>
       /\ "error_code" \in DOMAIN result /\ result.error_code = 2
       /\ HasZeroedThroughput(result)
       /\ df # None => df[1].ErrorCode = 2 /\ HasZeroedThroughput(RowThroughput(df[1]))
  /\ PingUnreachable =>
       /\ "error_code" \in DOMAIN result /\ result.error_code = 1
       /\ HasZeroedThroughput(result)
       /\ df # None => df[1].ErrorCode = 1 /\ HasZeroedThroughput(RowThroughput(df[1]))

C2_Witness ==
  /\ SpeedTestFailedEveryAttempt /\ Len(speed_log) = 3 /\ pc = "done"
  /\ Len(sink) = 1 /\ sink[1].ErrorCode = 2 /\ sink[1].PingSuccess

\* C3: every row handed to the sink has an error code among 0, 1, 2: 1
\* exactly when ping was unreachable, 2 exactly when ping was reachable and
\* the speed test failed, 0 exactly when both succeeded; and its error
\* message is empty exactly when the code is 0.
C3_ErrorTaxonomy ==
  \A row \in Handed :
    /\ row.ErrorCode \in {0, 1, 2}
    /\ row.ErrorCode = 1 <=> PingUnreachable
    /\ row.ErrorCode = 2 <=> (PingReachable /\ speed_ret.kind \in {"raise", "return_none"})
    /\ row.ErrorCode = 0 <=> (PingReachable /\ speed_ret.kind = "return")
    /\ row.ErrorMessage = "" <=> row.ErrorCode = 0
    /\ row.PingSuccess <=> PingReachable

C3_Witness ==
  /\ Len(sink) = 1 /\ sink[1].ErrorCode = 0 /\ sink[1].ErrorMessage = ""
  /\ speed_ret.kind = "return" /\ Len(speed_log) = 2

PingFailures == {"CalledProcessError", "TimeoutExpired"}

\* C4: retry bound.  Neither prober ever makes more than retries attempts,
\* and one that has ended after nothing but failed attempts (timeouts and
\* non-zero exits for check_ping, raising attempts for run_speed_test) has
\* made exactly retries attempts.
C4_RetryBound ==
  /\ Len(ping_log) <= ping_retries
  /\ Len(speed_log) <= speed_retries
  /\ (ping_ret.kind # "pending" /\ \A i \in 1..Len(ping_log) : ping_log[i] \in PingFailures)
       => Len(ping_log) = ping_retries /\ ping_ret.kind = "return" /\ ~ping_ret.reachable
  /\ (speed_ret.kind # "pending" /\ \A i \in 1..Len(speed_log) : speed_log[i] = "failed")
       => Len(speed_log) = speed_retries

C4_Witness ==
  /\ entry = "check_ping" /\ ping_retries = 2 /\ pc = "done"
  /\ ping_log = <<"TimeoutExpired", "CalledProcessError">>
  /\ ~ping_ret.reachable

\* C5: check_ping returns True at the first attempt that completes, with
\* the loss that attempt reported, and makes no attempt after it; it
\* returns False only after retries attempts none of which completed, and
\* then with packet loss 100.0.
C5_FirstCompletedAttemptReturns ==
  /\ \A i \in 1..Len(ping_log) :
       ping_log[i] = "completed" =>
         /\ i = Len(ping_log)
         /\ ping_ret.kind = "return" /\ ping_ret.reachable
         /\ (system # "Windows" /\ ping_output.pct # None) => ping_ret.loss = ping_output.pct[1]
         /\ (system = "Windows" /\ ping_output.lost # None) => ping_ret.loss = 20 * ping_output.lost[1]
  /\ (ping_ret.kind = "return" /\ ping_ret.reachable) =>
       ping_log # <<>> /\ ping_log[Len(ping_log)] = "completed"
  /\ (ping_ret.kind = "return" /\ ~ping_ret.reachable) =>
       /\ Len(ping_log) = ping_retries
       /\ \A i \in 1..Len(ping_log) : ping_log[i] # "completed"
       /\ ping_ret.loss = 100

C5_Witness ==
  /\ entry = "main" /\ pc = "done"
  /\ ping_log = <<"TimeoutExpired", "completed">>
  /\ ping_output.pct = Some(100)
  /\ result.ping_success /\ result.packet_loss_pct = 100

\* C6: no exception leaves check_ping: whatever goes wrong in an attempt,
\* check_ping does not raise and main does not die of it.
C6_NoExceptionEscapesPing ==
  /\ ping_ret.kind # "raise"
  /\ pc # "crashed"

\* The last attempt of check_ping completed and its output did not match
\* the loss pattern of the platform
UnparsedOutput ==
  /\ ping_log # <<>> /\ ping_log[Len(ping_log)] = "completed"
  /\ IF system = "Windows" THEN ping_output.lost = None ELSE ping_output.pct = None

\* C7, as claimed: an attempt whose output cannot be parsed counts as
\* failed, so check_ping does not return a result from it.
C7_UnparsedOutputRetried ==
  UnparsedOutput => ping_ret.kind # "return"

\* C7, amended: an attempt that completes with output that cannot be parsed
\* does not crash and is not retried: it is the last attempt, and check_ping
\* returns True from it with the packet loss still at its default, 100.0.
C7_UnparsedOutputReturnsReachable ==
  UnparsedOutput =>
    /\ ping_ret = [kind |-> "return", reachable |-> TRUE, loss |-> 100]
    /\ pc # "crashed"
    /\ \A i \in 1..(Len(ping_log) - 1) : ping_log[i] # "completed"
    /\ (entry = "main" /\ pc # "check_ping") =>
         result.ping_success /\ result.packet_loss_pct = 100

C7_Witness ==
  /\ UnparsedOutput /\ entry = "main" /\ pc = "done"
  /\ ping_log = <<"CalledProcessError", "completed">>
  /\ Len(sink) = 1 /\ sink[1].PingSuccess /\ sink[1].PacketLossPct = 100

MeasurementKeys ==
  {"download_mbps", "upload_mbps", "ping_ms", "ip", "jitter_ms",
   "test_duration_sec", "test_server", "test_server_ip"}

\* C8: once run_speed_test has ended it has either returned a complete
\* measurement (eight fields) from an attempt that succeeded, or raised with
\* a cause after the last of its retries attempts failed.
C8_MeasurementOrError ==
  speed_ret.kind # "pending" =>
    \/ /\ speed_ret.kind = "return"
       /\ DOMAIN speed_ret.value = MeasurementKeys
       /\ speed_log # <<>> /\ speed_log[Len(speed_log)] = "ok"
    \/ /\ speed_ret.kind = "raise"
       /\ speed_ret.e # ""
       /\ Len(speed_log) = speed_retries

GeoKeys == {"latitude", "longitude", "city", "region", "org"}

\* C9: get_location is called exactly once in every cycle that gets past
\* the probers, whichever way they went, and not before; from then on the
\* record holds latitude, longitude, city, region and org, the row carries
\* the same values, and they are 0.0, 0.0, "", "", "" when the lookup failed.
C9_LocationAlwaysAttached ==
  /\ geo_calls = IF entry = "main" /\ pc \in {"print", "insert", "duration", "done"}
                   THEN 1 ELSE 0
  /\ geo_calls = 1 =>
       /\ geo_ok # None
       /\ GeoKeys \subseteq DOMAIN result
       /\ geo_ok = Some(FALSE) =>
            /\ result.latitude = 0 /\ result.longitude = 0
            /\ result.city = "" /\ result.region = "" /\ result.org = ""
       /\ df # None =>
            /\ df[1].Latitude = result.latitude /\ df[1].Longitude = result.longitude
            /\ df[1].City = result.city /\ df[1].Region = result.region
            /\ df[1].ISPName = result.org

C9_Witness ==
  /\ pc = "done" /\ geo_calls = 1 /\ geo_ok = Some(FALSE)
  /\ speed_ret.kind = "raise"
  /\ Len(sink) = 1 /\ sink[1].Latitude = 0 /\ sink[1].City = "" /\ sink[1].ISPName = ""

\* C10: the step that attaches the geolocation adds the five geolocation
\* keys to the record and changes nothing else: every key the record had
\* keeps its value, no other key appears (so no error code appears or
\* changes), and the probers' results are untouched.
C10_GeolocationFrame ==
  [][pc = "get_location" =>
       /\ DOMAIN result' = DOMAIN result \cup GeoKeys
       /\ \A k \in DOMAIN result \ GeoKeys : result'[k] = result[k]
       /\ UNCHANGED <<pingVars, speedVars>>]_vars

C10_Witness ==
  /\ pc = "print" /\ geo_ok = Some(FALSE)
  /\ result.ping_success /\ "error_code" \notin DOMAIN result
  /\ result.sla_compliance /\ result.ip = "41.90.1.2"

\* C11: whenever calculate_sla_metrics has been called with speeds d and u,
\* it reports compliance exactly when d is at least 8/10 of the contracted
\* download speed and u at least 8/10 of the contracted upload speed (the
\* 80% boundary included); and the record carries that verdict for its own
\* download and upload speeds.
C11_SlaCompliantIffBothAtLeast80Pct ==
  sla_calls > 0 =>
    /\ sla_ret.sla_compliance <=>
         /\ 10 * sla_args[1] >= 8 * Milli(CONTRACTED_DOWNLOAD_MBPS)
         /\ 10 * sla_args[2] >= 8 * Milli(CONTRACTED_UPLOAD_MBPS)
    /\ entry = "main" =>
         /\ sla_args = <<result.download_mbps, result.upload_mbps>>
         /\ result.sla_compliance = sla_ret.sla_compliance
         /\ df # None => df[1].SlaCompliance = sla_ret.sla_compliance

C11_Witness ==
  /\ entry = "main" /\ pc = "done" /\ Len(sink) = 1
  /\ sink[1].DownloadMbps = 95000 /\ sink[1].UploadMbps = 19000
  /\ sink[1].SlaCompliance

\* Percentage of a contracted speed (whole Mbps) that a speed is, in thousandths
PctOf(speed, contracted) == IF contracted > 0 THEN (speed * 100) \div contracted ELSE 0

\* C12: whenever calculate_sla_metrics has been called, the deviation it
\* reports is the smaller of the download and upload percentages, minus 100;
\* the record and the row carry that value.  For 45.32 / 9.87 Mbps it is
\* -54.68, with the SLA not met.
C12_DeviationIsWorsePctMinus100 ==
  sla_calls > 0 =>
    LET dp == PctOf(sla_args[1], CONTRACTED_DOWNLOAD_MBPS)
        up == PctOf(sla_args[2], CONTRACTED_UPLOAD_MBPS)
    IN  /\ sla_ret.sla_deviation_pct = (IF dp <= up THEN dp ELSE up) - Milli(100)
        /\ entry = "main" =>
             /\ result.sla_deviation_pct = sla_ret.sla_deviation_pct
             /\ df # None => df[1].SlaDeviationPct = sla_ret.sla_deviation_pct
        /\ sla_args = <<45320, 9870>> =>
             ~sla_ret.sla_compliance /\ sla_ret.sla_deviation_pct = -54680

C12_Witness ==
  /\ entry = "main" /\ pc = "done" /\ Len(sink) = 1
  /\ sink[1].DownloadMbps = 45320 /\ sink[1].UploadMbps = 9870
  /\ ~sink[1].SlaCompliance /\ sink[1].SlaDeviationPct = -54680

\* C13: every row handed to the sink carries the contracted speeds 100.0
\* and 20.0, whatever its error code; and a row with a non-zero error code
\* was built without a call of calculate_sla_metrics and is not compliant.
C13_ContractedSpeedsInEveryRecord ==
  \A row \in Handed :
    /\ row.ContractedDownloadMbps = Milli(100)
    /\ row.ContractedUploadMbps = Milli(20)
    /\ row.ErrorCode # 0 => sla_calls = 0 /\ ~row.SlaCompliance

\* The console shows the message of a failed insert
InsertErrorReported ==
  \E i \in 1..Len(console) :
    console[i].kind = "text" /\ console[i].text = " Database insert error"

\* C14: the record is handed to the sink exactly once.  There is never more
\* than one insert, a cycle past the insert has made exactly one, a failed
\* one is reported on the console, and once the insert has been made no
\* prober and no lookup runs again and no further insert follows.
C14_HandedToSinkOnce ==
  /\ [](/\ sink_attempts <= 1
        /\ Len(sink) <= sink_attempts
        /\ (entry = "main" /\ pc \in {"duration", "done"}) =>
             /\ sink_attempts = 1
             /\ Len(sink) = 0 <=> InsertErrorReported)
  /\ [][sink_attempts >= 1 =>
          /\ sink_attempts' = sink_attempts
          /\ UNCHANGED <<pingVars, speedVars, geoVars, sink>>]_vars

C14_Witness ==
  /\ entry = "main" /\ pc = "done"
  /\ sink_attempts = 1 /\ sink = <<>> /\ InsertErrorReported

\* C15: the record is on the console before the insert is attempted, and
\* the insert, failed or not, is followed by the duration line: a cycle that
\* has attempted the insert is at or past the duration line, and a finished
\* cycle has printed the record first and the duration last.
C15_SinkFailureDoesNotBlockOutput ==
  /\ pc = "insert" => (console # <<>> /\ console[1].kind = "record" /\ console[1].body = result)
  /\ sink_attempts >= 1 =>
       /\ pc \in {"duration", "done"}
       /\ console[1].kind = "record" /\ console[1].body = result
  /\ (entry = "main" /\ pc = "done") =>
       /\ sink_attempts = 1
       /\ console[Len(console)].kind = "text"
       /\ console[Len(console)].text = "Execution time"

C15_Witness ==
  /\ entry = "main" /\ pc = "done" /\ sink = <<>> /\ sink_attempts = 1
  /\ Len(console) = 3 /\ console[1].kind = "record"
  /\ console[2].text = " Database insert error" /\ console[3].text = "Execution time"

\* C16: all-or-nothing assembly.  The sink is empty in every state before
\* the insert; a row in the sink means check_ping has returned, so has
\* run_speed_test if ping was reachable, and get_location has been called,
\* and the row is the one built from the whole record; and once the record
\* has been printed neither it, nor the row, nor a stored row changes.
C16_AllOrNothingAssembly ==
  /\ [](/\ pc \notin {"duration", "done"} => sink = <<>>
        /\ sink # <<>> =>
             /\ ping_ret.kind = "return"
             /\ ping_ret.reachable => speed_ret.kind # "pending"
             /\ geo_calls = 1
             /\ sink = <<BuildRow(result)>>)
  /\ [][console # <<>> =>
          /\ result' = result /\ df' = df
          /\ sink # <<>> => sink' = sink]_vars

C16_Witness ==
  /\ entry = "main" /\ pc = "done" /\ Len(sink) = 1
  /\ ping_ret.reachable /\ speed_ret.kind = "return" /\ geo_calls = 1
  /\ sink[1].ErrorCode = 0 /\ sink[1].City = "Nairobi"

MetadataKeys ==
  {"timestamp", "device_id", "school_name", "agent_version", "os_version",
   "device_uptime_sec"}

\* C17, as claimed: the timestamp and the device metadata are stamped as the
\* last step, so a record that has them already has its geolocation.
C17_StampedAfterGeolocation ==
  (MetadataKeys \cap DOMAIN result # {}) => geo_calls = 1

\* The order in which main moves through its stages
StageOrder ==
  { <<"main", "check_ping">>,
    <<"check_ping", "check_ping">>, <<"check_ping", "run_speed_test">>,
    <<"check_ping", "get_location">>, <<"check_ping", "crashed">>,
    <<"run_speed_test", "run_speed_test">>, <<"run_speed_test", "get_location">>,
    <<"get_location", "print">>, <<"print", "insert">>,
    <<"insert", "duration">>, <<"duration", "done">> }

\* C17, amended: main goes from its start to check_ping, then (ping
\* unreachable) straight to get_location with error code 1 or (reachable) to
\* run_speed_test and from there to get_location with the measurement or
\* with error code 2, then to the output and the insert -- or dies at the
\* ping stage when check_ping raises.  The timestamp and the device metadata
\* are stamped as the first step, before any ping attempt, and never again.
C17_StampedFirstThenStagesInOrder ==
  /\ [](entry = "main" =>
          /\ pc = "main" => (result = EmptyDict /\ ping_log = <<>>)
          /\ pc # "main" =>
               /\ MetadataKeys \subseteq DOMAIN result
               /\ result.timestamp.instant = 0
          /\ pc = "get_location" =>
               \/ /\ ~ping_ret.reachable /\ speed_ret.kind = "pending"
                  /\ result.error_code = 1
               \/ /\ ping_ret.reachable /\ speed_ret.kind = "return"
                  /\ "error_code" \notin DOMAIN result
               \/ /\ ping_ret.reachable /\ speed_ret.kind = "raise"
                  /\ result.error_code = 2)
  /\ [][entry = "main" =>
          /\ <<pc, pc'>> \in StageOrder
          /\ pc # "main" => \A k \in MetadataKeys : result'[k] = result[k]]_vars

C17_Witness ==
  /\ entry = "main" /\ pc = "done" /\ geo_calls = 1
  /\ result.timestamp.instant = 0 /\ clock = 9
  /\ speed_ret.kind = "return" /\ Len(sink) = 1 /\ sink[1].TimestampUtc = 0

SchemaKeys ==
  MetadataKeys \cup {"ping_success", "packet_loss_pct"} \cup MeasurementKeys
    \cup {"contracted_download_mbps", "contracted_upload_mbps", "sla_compliance",
          "sla_deviation_pct"}
    \cup GeoKeys \cup {"error_code", "error_message"}

\* C18: the record printed on the console has every field of the record
\* schema, error code, error message and SLA fields included, with the
\* values of the row handed to the sink.
C18_ConsoleShowsWholeRecord ==
  \A i \in 1..Len(console) :
    console[i].kind = "record" =>
      /\ SchemaKeys \subseteq DOMAIN console[i].body
      /\ df # None => df[1] = BuildRow(console[i].body)

\* C19: every cycle makes at most retries ping attempts, at most retries
\* speed-test attempts, one lookup and one insert, and eventually reaches
\* the end of main.
C19_CycleReachesEndOfMain ==
  /\ [](/\ Len(ping_log) <= ping_retries /\ Len(speed_log) <= speed_retries
        /\ geo_calls <= 1 /\ sink_attempts <= 1)
  /\ <>(entry = "main" => pc = "done")

\* C20: both probers sleep only between attempts.  At any moment the number
\* of sleeps is the number of failed attempts made so far that were not the
\* last allowed one: none before the first attempt, k-1 when attempt k
\* succeeds, and retries-1 (none after the final failure) when all fail.
C20_SleepOnlyBetweenAttempts ==
  /\ ping_sleeps = Cardinality({i \in 1..Len(ping_log) :
                      ping_log[i] \in PingFailures /\ i < ping_retries})
  /\ speed_sleeps = Cardinality({i \in 1..Len(speed_log) :
                      speed_log[i] = "failed" /\ i < speed_retries})
  /\ (ping_ret.kind = "return" /\ ping_ret.reachable) => ping_sleeps = Len(ping_log) - 1
  /\ (ping_ret.kind = "return" /\ ~ping_ret.reachable /\ ping_retries > 0) =>
       ping_sleeps = ping_retries - 1
  /\ speed_ret.kind = "return" => speed_sleeps = Len(speed_log) - 1
  /\ (speed_ret.kind = "raise" /\ speed_retries > 0) => speed_sleeps = speed_retries - 1
  /\ (ping_retries = 0 => ping_sleeps = 0) /\ (speed_retries = 0 => speed_sleeps = 0)

C20_Witness ==
  /\ entry = "main" /\ pc = "done"
  /\ ping_log = <<"TimeoutExpired", "completed">> /\ ping_sleeps = 1
  /\ speed_log = <<"failed", "failed", "failed">> /\ speed_sleeps = 2
  /\ speed_ret.kind = "raise"

----------------------------------------------------------------------------
\* sabio-setup

MarkerLines(t) == SelectSeq(CrontabLines(t), ContainsMarker)
OtherLines(t) == SelectSeq(CrontabLines(t), NoMarker)
NoCarriageReturn(t) == \A i \in 1..Len(t) : t[i] # "\r"

\* The crontab t has exactly one marker line, cron_line, and it is the last line.
RegisteredOnceLast(t) ==
  /\ MarkerLines(t) = <<cron_line>>
  /\ CrontabLines(t)[Len(CrontabLines(t))] = cron_line

StepsCalled == [i \in 1..Len(setup_log) |-> setup_log[i].step]
FixedOrder ==
  <<"apt_install", "create_project_dir", "fetch_monitor_script",
    "create_and_install_venv", "configure_odbc", "register_cron">>

\* C22: sabio-setup's main is fail-stop and ordered.  Not run as root it
\* exits before any step; as root the steps are called in the fixed order;
\* a step that fails is the last one called, the crontab is then left as it
\* was and main returns 1; main returns 0 only after six completed steps.
C22_SetupFailStopAndOrdered ==
  entry = "setup_main" =>
    /\ ~is_root =>
         /\ setup_log = <<>> /\ crontab = crontab0 /\ cron_runs = 0
         /\ pc \in {"setup_main", "setup_done"}
         /\ pc = "setup_done" => setup_ret = [kind |-> "sys_exit", code |-> 1]
    /\ StepsCalled = SubSeq(FixedOrder, 1, Len(setup_log))
    /\ \A i \in 1..Len(setup_log) :
         ~setup_log[i].ok =>
           /\ i = Len(setup_log)
           /\ crontab = crontab0 /\ cron_runs = 0
           /\ pc = "setup_done" /\ setup_ret = [kind |-> "return", code |-> 1]
    /\ setup_ret = [kind |-> "return", code |-> 0] =>
         /\ Len(setup_log) = 6
         /\ \A i \in 1..6 : setup_log[i].ok
    /\ is_root /\ pc = "setup_done" => setup_ret.kind = "return"

\* fetch_monitor_script failed: main returned 1 after three steps.
C22_Witness ==
  /\ entry = "setup_main" /\ is_root /\ pc = "setup_done"
  /\ Len(setup_log) = 3 /\ ~setup_log[3].ok
  /\ setup_ret = [kind |-> "return", code |-> 1]

====
